---- MODULE Spec2Model ----
(***************************************************************************)
(* Model of llm-coq.py: the generate / extract / compile / retry loop of   *)
(* main() and the methods of CoqInterface.                                 *)
(*                                                                         *)
(* A Python string is a sequence of pieces.  A text the program inspects    *)
(* (a response, a diagnostic, the content of a file, a message that is     *)
(* passed on as errors) has one character per piece.  A literal that the   *)
(* program only copies into a prompt or prints is kept in whole pieces.    *)
(* The value None and a file that does not exist are one-element sequences *)
(* whose piece is no text of the program, so they differ from every        *)
(* string.                                                                 *)
(*                                                                         *)
(* Environment assumptions: the working directory is writable, coqc can be *)
(* spawned, its error stream is valid UTF-8 (e.stderr.decode() returns),   *)
(* and the platform is POSIX (os.linesep is "\n").                         *)
(***************************************************************************)
EXTENDS Naturals, Sequences, FiniteSets, TLC

(* ------------------------------ constants ------------------------------ *)

\* llm-coq.py:8
MAX_NUM_ATTEMPTS == 2

\* Python's None (main:177, compile_and_check:122)
None == <<"None">>

\* os.path.exists(...) is False for this file
NoFile == <<"NoFile">>

\* the backtick character, which a TLA+ string cannot hold
BT == "backtick"

\* the metaprompt of main(), llm-coq.py:166-168
metaprompt == <<
    "\nWe're going to play a game. I'll give you a prompt, and you have to write a Coq proof that satisfies the prompt. In your answers, write only one Coq code snippet delineated by triple backticks ",
    BT, BT, BT,
    ". I'll check your proof and let you know if it's correct. If you need help, just ask!\n">>

\* string literals of the source: the two messages that can become errors,
\* one character per piece, and the literals of the prompts and of print
NoCodeMessage == <<"N","o"," ","c","o","d","e"," ","s","e","g","m","e","n","t"," ","f","o","u","n","d"," ","i","n"," ","r","e","s","p","o","n","s","e",".">>
NoErrorsFound == <<"N","o"," ","e","r","r","o","r","s"," ","f","o","u","n","d",".">>
CompiledMessage == <<"Coq code compiled successfully.">>
ReminderText == <<"Reminder that our task is to: ">>
ErrLinePart == <<"We had an error on line ">>
ErrCharsPart == <<" at characters ">>
ErrTypePart == <<". The error type was \"">>
Fence == <<BT,BT,BT>>
PatFile == <<"F","i","l","e"," ","\"">>
PatLine == <<"\"",","," ","l","i","n","e"," ">>
PatCharacters == <<","," ","c","h","a","r","a","c","t","e","r","s"," ">>
PatError == <<":","\n","E","r","r","o","r",":"," ">>
NL == <<"\n">>
Quote == <<"\"">>

\* character classes of the regular expressions
Letters == {"a","b","c","d","e","f","g","h","i","j","k","l","m","n","o","p","q","r","s","t","u","v","w","x","y","z","A","B","C","D","E","F","G","H","I","J","K","L","M","N","O","P","Q","R","S","T","U","V","W","X","Y","Z"}
Digits == {"0","1","2","3","4","5","6","7","8","9"}
\* str.strip() and \s, restricted to the characters TLA+ can write
Whitespace == {" ", "\t", "\n", "\r", "\f"}

(* --------------------------- string helpers ---------------------------- *)

\* s[i..] starts with the literal lit
LitAt(s, i, lit) ==
    /\ i >= 1
    /\ i + Len(lit) - 1 <= Len(s)
    /\ SubSeq(s, i, i + Len(lit) - 1) = lit

\* greedy class repetition: the first index k >= i with s[k] not in S
\* (Len(s)+1 when the run reaches the end of s)
Span(s, i, S) ==
    CHOOSE k \in i..(Len(s) + 1) :
        /\ \A j \in i..(k - 1) : s[j] \in S
        /\ (k = Len(s) + 1 \/ s[k] \notin S)

\* greedy negated class repetition: the first index k >= i with s[k] in S
SpanNot(s, i, S) ==
    CHOOSE k \in i..(Len(s) + 1) :
        /\ \A j \in i..(k - 1) : s[j] \notin S
        /\ (k = Len(s) + 1 \/ s[k] \in S)

\* the least element of a non-empty set of naturals
Least(S) == CHOOSE k \in S : \A j \in S : k <= j

\* the greatest element of a non-empty set of naturals
Greatest(S) == CHOOSE k \in S : \A j \in S : k >= j

\* str.strip()
strip(s) ==
    LET keep == {i \in 1..Len(s) : s[i] \notin Whitespace}
    IN  IF keep = {} THEN << >> ELSE SubSeq(s, Least(keep), Greatest(keep))

\* a truthy value: neither None nor the empty string
\* a test that takes the empty string for an error
TruthyNotNone(v) == v # None

Truthy(v) == v # None /\ v # << >>

\* type(v) is str
IsStr(v) == v # None /\ v # NoFile


(* ------------------------- parse_coq_error ----------------------------- *)

EmptyDict == [k \in {} |-> << >>]

\* a message group compiled with re.DOTALL: it runs to the end of the text
MessageEndDotAll(s, m) == Len(s) + 1

\* The end of the group (?P<message>.*) that starts at m (llm-coq.py:56): the
\* dot stops at the first newline.
MessageEnd(s, m) == SpanNot(s, m, {"\n"})

\* One attempt of error_pattern at start index i (llm-coq.py:54-57).  Every
\* repetition is followed by a character outside its class, so the greedy
\* spans are the only way the pattern can match from i.
\*   File "[^"]*", line (\d+), characters (\d+-\d+):\nError: (.*)
\* The dot does not match a newline: the pattern is compiled without DOTALL.
ErrorMatchAt(s, i) ==
    LET f  == i + Len(PatFile)
        q  == SpanNot(s, f, {"\""})
        l  == q + Len(PatLine)
        le == Span(s, l, Digits)
        c  == le + Len(PatCharacters)
        ce == Span(s, c, Digits)
        d  == ce + 1
        de == Span(s, d, Digits)
        m  == de + Len(PatError)
        me == MessageEnd(s, m)
    IN  IF /\ LitAt(s, i, PatFile)
           /\ LitAt(s, q, PatLine)
           /\ le > l
           /\ LitAt(s, le, PatCharacters)
           /\ ce > c
           /\ LitAt(s, ce, <<"-">>)
           /\ de > d
           /\ LitAt(s, de, PatError)
        THEN [line |-> SubSeq(s, l, le - 1),
              characters |-> SubSeq(s, c, de - 1),
              message |-> SubSeq(s, m, me - 1)]
        ELSE EmptyDict

\* error_pattern.match in place of search: only the start of the text is tried
parse_coq_error_match(error_message) == ErrorMatchAt(error_message, 1)

\* error_pattern.search: the leftmost start index that matches; match.groupdict()
\* on a match and {} otherwise (llm-coq.py:59-62)
parse_coq_error(error_message) ==
    LET starts == {i \in 1..Len(error_message) :
                      DOMAIN ErrorMatchAt(error_message, i) # {}}
    IN  IF starts # {} THEN ErrorMatchAt(error_message, Least(starts))
        ELSE EmptyDict

(* ---------------------- construct_error_message ------------------------ *)

\* The result of a call: the exception it raised ("none" when it returned)
\* and the value it returned.
Returned(v) == [exc |-> "none", val |-> v]
Raised(e) == [exc |-> e, val |-> None]

\* llm-coq.py:30-37.  The f-string subscripts errordict['line'] first, which
\* raises KeyError on the empty dict.
construct_error_message(errors) ==
    IF IsStr(errors)
    THEN LET errordict == parse_coq_error(errors)
         IN  IF "line" \notin DOMAIN errordict THEN Raised("KeyError")
             ELSE IF "characters" \notin DOMAIN errordict THEN Raised("KeyError")
             ELSE IF "message" \notin DOMAIN errordict THEN Raised("KeyError")
             ELSE Returned(ErrLinePart \o errordict["line"] \o ErrCharsPart
                           \o errordict["characters"] \o ErrTypePart
                           \o errordict["message"] \o Quote)
    ELSE Returned(<< >>)

(* ---------------------- construct_ollama_prompt ------------------------ *)

\* llm-coq.py:19-28
construct_ollama_prompt(task_prompt, first, errors) ==
    IF first
    THEN IF Truthy(errors)
         THEN LET r == construct_error_message(errors)
              IN  IF r.exc # "none" THEN r
                  ELSE Returned(metaprompt \o NL \o task_prompt \o NL \o r.val \o NL)
         ELSE Returned(metaprompt \o NL \o task_prompt \o NL)
    ELSE IF Truthy(errors)
         THEN LET r == construct_error_message(errors)
              IN  IF r.exc # "none" THEN r
                  ELSE Returned(ReminderText \o task_prompt \o NL \o r.val \o NL)
         ELSE Returned(task_prompt \o NL)

(* ------------------------ extract_code_segment ------------------------- *)

\* The end of a match of [fence][a-zA-Z]*\n starting at i (the index after
\* the newline), or 0 (llm-coq.py:139)
LanguageTagEnd(t, i) ==
    LET k == Span(t, i + Len(Fence), Letters)
    IN  IF LitAt(t, i, Fence) /\ LitAt(t, k, NL) THEN k + 1 ELSE 0

\* re.sub(r"[fence][a-zA-Z]*\n", "", t) from index i on (llm-coq.py:139):
\* every leftmost non-overlapping match is deleted.
RECURSIVE SubLanguageTag(_, _)
SubLanguageTag(t, i) ==
    LET starts == {m \in i..Len(t) : LanguageTagEnd(t, m) # 0}
    IN  IF starts = {} THEN SubSeq(t, i, Len(t))
        ELSE LET m == Least(starts)
             IN  SubSeq(t, i, m - 1) \o SubLanguageTag(t, LanguageTagEnd(t, m))

\* The end of a match of [fence]\s*$ starting at i under re.MULTILINE, or 0:
\* \s* is greedy and backs off to the last index that is the end of the text
\* or stands before a newline.
TrailingFenceEnd(t, i) ==
    LET a == i + Len(Fence)
        k == Span(t, a, Whitespace)
        ends == {p \in a..k : p = Len(t) + 1 \/ t[p] = "\n"}
    IN  IF LitAt(t, i, Fence) /\ ends # {} THEN Greatest(ends) ELSE 0

\* re.sub(r"[fence]\s*$", "", t, flags=re.MULTILINE) from index i on
\* (llm-coq.py:140)
RECURSIVE SubTrailingFence(_, _)
SubTrailingFence(t, i) ==
    LET starts == {m \in i..Len(t) : TrailingFenceEnd(t, m) # 0}
    IN  IF starts = {} THEN SubSeq(t, i, Len(t))
        ELSE LET m == Least(starts)
             IN  SubSeq(t, i, m - 1) \o SubTrailingFence(t, TrailingFenceEnd(t, m))

\* a greedy group (.*): it ends at the last fence of the text
ClosingFenceGreedy(text, o) ==
    Greatest({j \in (o + Len(Fence))..Len(text) : LitAt(text, j, Fence)})

\* The fence that closes the lazy group (.*?) opened by the fence at o
\* (llm-coq.py:134): the first one that follows it.
ClosingFence(text, o) ==
    Least({j \in (o + Len(Fence))..Len(text) : LitAt(text, j, Fence)})

\* llm-coq.py:124-143.  code_pattern is [fence](.*?)[fence] with DOTALL: the
\* match starts at the first fence that has another fence after it and the
\* lazy group ends at the first fence that follows.
extract_code_segment(text) ==
    LET F == Len(Fence)
        opens == {i \in 1..Len(text) :
                     /\ LitAt(text, i, Fence)
                     /\ \E j \in (i + F)..Len(text) : LitAt(text, j, Fence)}
    IN  IF opens = {} THEN << >>
        ELSE LET o == Least(opens)
                 c == ClosingFence(text, o)
                 matchtext == strip(SubSeq(text, o + F, c - 1))
                 cleaned1 == SubLanguageTag(matchtext, 1)
                 cleaned2 == SubTrailingFence(cleaned1, 1)
             IN  strip(cleaned2)

(* ------------------------------ file I/O ------------------------------- *)

\* file.write in text mode: "\n" becomes os.linesep, which is "\n" on POSIX
\* (llm-coq.py:79-80, 93-94)
TextWrite(s) == s

\* file.read in text mode (newline=None): "\r\n" and a lone "\r" are read
\* as "\n" (llm-coq.py:101-102).  ReadRange reads s[a..b], halving the range.
RECURSIVE ReadRange(_, _, _)
ReadRange(s, a, b) ==
    IF a > b THEN << >>
    ELSE IF a = b
         THEN IF s[a] = "\r" THEN NL
              ELSE IF s[a] = "\n" /\ a > 1 /\ s[a - 1] = "\r" THEN << >>
              ELSE <<s[a]>>
         ELSE LET m == (a + b) \div 2
              IN  ReadRange(s, a, m) \o ReadRange(s, m + 1, b)

TextRead(s) == ReadRange(s, 1, Len(s))

\* llm-coq.py:97-106
parse_errors(log) ==
    IF log = NoFile THEN NoErrorsFound ELSE TextRead(log)

(* ------------------------------- inputs -------------------------------- *)

\* task descriptions given on the command line: "prove 1=1", "t"
Tasks == {<<"p","r","o","v","e"," ","1","=","1">>, <<"t">>}

\* what the target file and the error log may hold when the run starts:
\* nothing, or the text a previous run left ("old", "stale")
StaleFile == <<"o","l","d">>
StaleLog == <<"s","t","a","l","e">>

\* model responses:
\*   RespCoq        a fenced block with the language tag coq
\*   RespPlain      a fenced block without a tag
\*   RespNoFence    no fence at all
\*   RespEmptyFence a fenced block with nothing inside
\*   RespTwo        two fenced blocks
RespCoq == <<BT,BT,BT,"c","o","q","\n","L","e","m","m","a"," ","t",":"," ","1","=","1","."," ","P","r","o","o","f","."," ","r","e","f","l","e","x","i","v","i","t","y","."," ","Q","e","d",".","\n",BT,BT,BT>>
RespPlain == <<BT,BT,BT,"\n","Q","e","d",".","\n",BT,BT,BT>>
RespNoFence == <<"I"," ","c","a","n","n","o","t"," ","h","e","l","p",".">>
RespEmptyFence == <<BT,BT,BT,"\n",BT,BT,BT>>
RespTwo == <<"a"," ",BT,BT,BT,"x",BT,BT,BT," ","b"," ",BT,BT,BT,"y",BT,BT,BT>>
Responses == {RespCoq, RespPlain, RespNoFence, RespEmptyFence, RespTwo}

\* error-stream texts of a failing coqc:
\*   DiagSyntax    the one-line diagnostic the pattern expects
\*   DiagTwoLines  a diagnostic whose message continues on a second line
\*   DiagNoPlace   a diagnostic without file, line and characters: "Error: bad"
\*   DiagEmpty     nothing on the error stream
\*   DiagCRLF      the expected diagnostic with "\r\n" line ends
DiagSyntax == <<"F","i","l","e"," ","\"","x",".","v","\"",","," ","l","i","n","e"," ","1","2",","," ","c","h","a","r","a","c","t","e","r","s"," ","4","-","1","0",":","\n","E","r","r","o","r",":"," ","S","y","n","t","a","x"," ","e","r","r","o","r",".">>
DiagTwoLines == <<"F","i","l","e"," ","\"",".","/","t","e","m","p",".","v","\"",","," ","l","i","n","e"," ","3",","," ","c","h","a","r","a","c","t","e","r","s"," ","0","-","5",":","\n","E","r","r","o","r",":"," ","T","h","e"," ","r","e","f","e","r","e","n","c","e"," ","x"," ","w","a","s"," ","n","o","t"," ","f","o","u","n","d","\n","i","n"," ","t","h","e"," ","c","u","r","r","e","n","t"," ","e","n","v","i","r","o","n","m","e","n","t",".","\n">>
DiagNoPlace == <<"E","r","r","o","r",":"," ","b","a","d">>
DiagEmpty == << >>
DiagCRLF == <<"F","i","l","e"," ","\"","x",".","v","\"",","," ","l","i","n","e"," ","1",","," ","c","h","a","r","a","c","t","e","r","s"," ","0","-","1",":","\r","\n","E","r","r","o","r",":"," ","E">>
Diagnostics == {DiagSyntax, DiagTwoLines, DiagNoPlace, DiagEmpty, DiagCRLF}

(* -------------------------------- state -------------------------------- *)

VARIABLES
    task_prompt,     \* self.task_prompt
    file,            \* the content of self.filename
    error_log,       \* the content of self.error_log ("coq_error.log")
    i,               \* the loop index of main
    status,          \* main's status
    errors,          \* main's errors, passed to compile_and_check
    pc,              \* the statement the run has reached
    prompt,          \* generate_coq_code's prompt
    coq_code,        \* the model's response
    clean_coq_code,  \* the extracted code
    success,         \* run_coqc's first result
    message,         \* run_coqc's second result
    exception,       \* the uncaught exception that ended the run, or "none"
    errordict,       \* construct_error_message's errordict
    history          \* what the run has done so far, in order

vars == <<task_prompt, file, error_log, i, status, errors, pc, prompt, coq_code,
          clean_coq_code, success, message, exception, errordict, history>>

\* one entry of history: what was done, in which round, with which text
Event(ev, val) == [ev |-> ev, round |-> i, val |-> val]

Init ==
    /\ task_prompt \in Tasks
    /\ file \in {NoFile, StaleFile}
    /\ error_log \in {NoFile, StaleLog}
    /\ i = 0
    /\ status = FALSE
    /\ errors = None
    /\ pc = "for"
    /\ prompt = None
    /\ coq_code = None
    /\ clean_coq_code = None
    /\ success = FALSE
    /\ message = None
    /\ exception = "none"
    /\ errordict = EmptyDict
    /\ history = << >>

(* ------------------------------- actions ------------------------------- *)

\* a loop that runs once more than range(MAX_NUM_ATTEMPTS)
InRangeOffByOne(k) == k <= MAX_NUM_ATTEMPTS

\* the range of the for loop, llm-coq.py:178
InRange(k) == k < MAX_NUM_ATTEMPTS

\* main, llm-coq.py:178-179: the loop has a next index and calls
\* compile_and_check(first=i == 0, errors=errors)
main_call ==
    /\ pc = "for"
    /\ InRange(i)
    /\ pc' = "construct_ollama_prompt"
    /\ history' = Append(history, Event("call", errors))
    /\ UNCHANGED <<errordict, task_prompt, file, error_log, i, status, errors, prompt,
                   coq_code, clean_coq_code, success, message, exception>>

\* main, llm-coq.py:178: range(MAX_NUM_ATTEMPTS) is used up, main returns
main_exhausted ==
    /\ pc = "for"
    /\ ~InRange(i)
    /\ pc' = "done"
    /\ UNCHANGED <<errordict, task_prompt, file, error_log, i, status, errors, prompt,
                   coq_code, clean_coq_code, success, message, exception, history>>

\* a driver that passes first=True in every round
IsFirstAlways(k) == TRUE

\* main, llm-coq.py:179: first=i == 0
IsFirst(k) == k = 0

\* generate_coq_code, llm-coq.py:65-66: the prompt is built; a KeyError of
\* construct_error_message is caught nowhere and ends the run.  errordict is
\* assigned when construct_error_message parses a string (llm-coq.py:33).
build_prompt ==
    /\ pc = "construct_ollama_prompt"
    /\ LET r == construct_ollama_prompt(task_prompt, IsFirst(i), errors)
       IN  IF r.exc = "none"
           THEN /\ prompt' = r.val
                /\ pc' = "ollama_chat"
                /\ history' = Append(history, Event("prompt", r.val))
                /\ UNCHANGED exception
           ELSE /\ exception' = r.exc
                /\ pc' = "crashed"
                /\ UNCHANGED <<prompt, history>>
    /\ errordict' = IF Truthy(errors) /\ IsStr(errors)
                    THEN parse_coq_error(errors)
                    ELSE errordict
    /\ UNCHANGED <<task_prompt, file, error_log, i, status, errors, coq_code,
                   clean_coq_code, success, message>>

\* generate_coq_code, llm-coq.py:67-76: the backend answers
ollama_chat ==
    /\ pc = "ollama_chat"
    /\ \E response \in Responses :
          /\ coq_code' = response
          /\ history' = Append(history, Event("request", prompt))
    /\ pc' = "extract_code_segment"
    /\ UNCHANGED <<errordict, task_prompt, file, error_log, i, status, errors, prompt,
                   clean_coq_code, success, message, exception>>

\* a compile_and_check that catches the backend fault and reports the
\* attempt as failed, (False, None), so that main tries again
ollama_chat_fault_caught ==
    /\ pc = "ollama_chat"
    /\ history' = history \o <<Event("request", prompt),
                               Event("BackendError", None)>>
    /\ status' = FALSE
    /\ errors' = None
    /\ pc' = "if_status"
    /\ UNCHANGED <<errordict, task_prompt, file, error_log, i, prompt,
                   coq_code, clean_coq_code, success, message, exception>>

\* generate_coq_code, llm-coq.py:67-76: the backend call raises; nothing
\* catches it
ollama_chat_fails ==
    /\ pc = "ollama_chat"
    /\ history' = history \o <<Event("request", prompt),
                               Event("BackendError", None)>>
    /\ exception' = "BackendError"
    /\ pc' = "crashed"
    /\ UNCHANGED <<errordict, task_prompt, file, error_log, i, status, errors, prompt,
                   coq_code, clean_coq_code, success, message>>

\* compile_and_check without its test for an empty extraction
NoCodeUnchecked(code) == FALSE

\* the test of compile_and_check, llm-coq.py:111
NoCode(code) == code = << >>

\* compile_and_check, llm-coq.py:110-113 and main:179: no code was
\* extracted, (False, "No code segment found in response.") goes to main
extract_fails ==
    /\ pc = "extract_code_segment"
    /\ LET code == extract_code_segment(coq_code)
       IN  /\ NoCode(code)
           /\ clean_coq_code' = code
           /\ history' = Append(history, Event("extract", code))
    /\ status' = FALSE
    /\ errors' = NoCodeMessage
    /\ pc' = "if_status"
    /\ UNCHANGED <<errordict, task_prompt, file, error_log, i, prompt, coq_code, success,
                   message, exception>>

\* compile_and_check, llm-coq.py:110-111: code was extracted
extract_succeeds ==
    /\ pc = "extract_code_segment"
    /\ LET code == extract_code_segment(coq_code)
       IN  /\ ~NoCode(code)
           /\ clean_coq_code' = code
           /\ history' = Append(history, Event("extract", code))
    /\ pc' = "write_to_file"
    /\ UNCHANGED <<errordict, task_prompt, file, error_log, i, status, errors, prompt,
                   coq_code, success, message, exception>>

\* a file opened in mode "a": the code is added to what the file holds
WrittenAppending(old, code) == IF old = NoFile THEN TextWrite(code) ELSE old \o TextWrite(code)

\* a write_to_file that leaves the file as it was
WrittenNothing(old, code) == old

\* what write_to_file leaves in the file, llm-coq.py:79-80: mode "w"
\* truncates, then the code is written
Written(old, code) == TextWrite(code)

\* compile_and_check, llm-coq.py:114
write_to_file ==
    /\ pc = "write_to_file"
    /\ file' = Written(file, clean_coq_code)
    /\ history' = Append(history, Event("write", clean_coq_code))
    /\ pc' = "run_coqc"
    /\ UNCHANGED <<errordict, task_prompt, error_log, i, status, errors, prompt, coq_code,
                   clean_coq_code, success, message, exception>>

\* run_coqc, llm-coq.py:83-91: coqc exits with 0
run_coqc_ok ==
    /\ pc = "run_coqc"
    /\ success' = TRUE
    /\ message' = CompiledMessage
    /\ history' = Append(history, Event("coqc", None))
    /\ pc' = "if_not_success"
    /\ UNCHANGED <<errordict, task_prompt, file, error_log, i, status, errors, prompt,
                   coq_code, clean_coq_code, exception>>

\* an error log opened in mode "a"
LoggedAppending(old, stderr) == IF old = NoFile THEN TextWrite(stderr) ELSE old \o TextWrite(stderr)

\* what the except branch of run_coqc leaves in the error log,
\* llm-coq.py:93-94
Logged(old, stderr) == TextWrite(stderr)

\* run_coqc, llm-coq.py:83-95: coqc exits with another code; its error
\* stream goes to the error log and is returned
run_coqc_fails ==
    /\ pc = "run_coqc"
    /\ \E stderr \in Diagnostics :
          /\ error_log' = Logged(error_log, stderr)
          /\ message' = stderr
          /\ history' = Append(history, Event("coqc", stderr))
    /\ success' = FALSE
    /\ pc' = "if_not_success"
    /\ UNCHANGED <<errordict, task_prompt, file, i, status, errors, prompt, coq_code,
                   clean_coq_code, exception>>

\* compile_and_check, llm-coq.py:116-119 and main:179: the error log is
\* read back and (False, errors) goes to main
compile_failed ==
    /\ pc = "if_not_success"
    /\ ~success
    /\ status' = FALSE
    /\ errors' = parse_errors(error_log)
    /\ pc' = "if_status"
    /\ UNCHANGED <<errordict, task_prompt, file, error_log, i, prompt, coq_code,
                   clean_coq_code, success, message, exception, history>>

\* compile_and_check, llm-coq.py:120-122 and main:179: (True, None) goes to
\* main
compile_succeeded ==
    /\ pc = "if_not_success"
    /\ success
    /\ status' = TRUE
    /\ errors' = None
    /\ pc' = "if_status"
    /\ UNCHANGED <<errordict, task_prompt, file, error_log, i, prompt, coq_code,
                   clean_coq_code, success, message, exception, history>>

\* main, llm-coq.py:180-181: break
main_break ==
    /\ pc = "if_status"
    /\ status
    /\ pc' = "done"
    /\ UNCHANGED <<errordict, task_prompt, file, error_log, i, status, errors, prompt,
                   coq_code, clean_coq_code, success, message, exception, history>>

\* main, llm-coq.py:182-183 and 178: "Errors found. Trying again." and the
\* next index of the loop
main_again ==
    /\ pc = "if_status"
    /\ ~status
    /\ i' = i + 1
    /\ pc' = "for"
    /\ UNCHANGED <<errordict, task_prompt, file, error_log, status, errors, prompt,
                   coq_code, clean_coq_code, success, message, exception, history>>

Next ==
    \/ main_call
    \/ main_exhausted
    \/ build_prompt
    \/ ollama_chat
    \/ ollama_chat_fails
    \/ extract_fails
    \/ extract_succeeds
    \/ write_to_file
    \/ run_coqc_ok
    \/ run_coqc_fails
    \/ compile_failed
    \/ compile_succeeded
    \/ main_break
    \/ main_again

Spec == Init /\ [][Next]_vars

(* --------------------------- reading history --------------------------- *)

\* the positions of history that hold an event of kind ev
Events(ev) == {k \in DOMAIN history : history[k].ev = ev}

\* the positions of history that hold an event of kind ev of round r
EventsOf(ev, r) == {k \in Events(ev) : history[k].round = r}

Calls == Cardinality(Events("call"))
Requests == Cardinality(Events("request"))
CoqcCalls == Cardinality(Events("coqc"))

\* coqc invocations that failed, and that succeeded
CoqcFailures == {k \in Events("coqc") : history[k].val # None}
CoqcSuccesses == {k \in Events("coqc") : history[k].val = None}

\* the run is over: main returned or an exception left it
Terminated == pc \in {"done", "crashed"}

\* the backend answered every request of the run
BackendAnswered == exception # "BackendError"

\* every response of the run held a fenced block with code in it: no
\* extraction of the run was empty
EveryResponseHadCode ==
    \A k \in Events("extract") : history[k].val # << >>

(* ------------------------------- claims -------------------------------- *)

\* C1: in every run the number of rounds started and the number of model
\* requests never exceed MAX_NUM_ATTEMPTS, and coqc is never invoked more
\* often than the model is asked.
C1_BoundedRounds ==
    /\ Calls <= MAX_NUM_ATTEMPTS
    /\ Requests <= MAX_NUM_ATTEMPTS
    /\ CoqcCalls <= Requests

\* C1 witness: a run that used every attempt, each with a request and a
\* coqc invocation, and is over.
C1_Witness ==
    /\ pc = "done"
    /\ Requests = MAX_NUM_ATTEMPTS
    /\ CoqcCalls = MAX_NUM_ATTEMPTS

\* C2: when every response holds code and coqc fails K < MAX_NUM_ATTEMPTS
\* times before it succeeds, whatever it writes to its error stream, the
\* run makes exactly K+1 requests and K+1 coqc invocations and ends in
\* Success, the successful compile being the last thing it does.  A run that
\* is over after K failures and no success is a run of that scenario: the
\* success of invocation K+1 was still to come.
C2_FailuresThenSuccess ==
    LET K == Cardinality(CoqcFailures)
    IN  (/\ Terminated
         /\ BackendAnswered
         /\ EveryResponseHadCode
         /\ K < MAX_NUM_ATTEMPTS)
        => /\ pc = "done"
           /\ status = TRUE
           /\ Requests = K + 1
           /\ CoqcCalls = K + 1
           /\ history[Len(history)] = [ev |-> "coqc", round |-> K, val |-> None]

\* C3: when every response holds code and coqc fails every time, whatever it
\* writes to its error stream, the run makes exactly MAX_NUM_ATTEMPTS rounds
\* and then main returns with status False; no exception ends it.
C3_AllFailuresExhaust ==
    (/\ Terminated
     /\ BackendAnswered
     /\ EveryResponseHadCode
     /\ CoqcSuccesses = {})
    => /\ pc = "done"
       /\ exception = "none"
       /\ status = FALSE
       /\ Requests = MAX_NUM_ATTEMPTS
       /\ CoqcCalls = MAX_NUM_ATTEMPTS

\* C4: after an attempt whose extraction is the empty string no further
\* round starts: compile_and_check is not called again, no prompt is built
\* and no request is issued.
C4_StopOnEmptyExtraction ==
    \A k \in Events("extract") :
        history[k].val = << >>
        => \A m \in DOMAIN history :
              m > k => history[m].ev \notin {"call", "prompt", "request"}

\* C5: in every round after the first the prior error passed to the prompt
\* builder is the text coqc wrote to its error stream in the round before,
\* and it is never the extraction-failure message.
C5_PriorErrorIsDiagnostic ==
    \A k \in Events("call") :
        history[k].round > 0
        => /\ history[k].val # NoCodeMessage
           /\ \E c \in EventsOf("coqc", history[k].round - 1) :
                 history[c].val = history[k].val

\* C6: when the prior error is a string on which parse_coq_error returns the
\* empty dict, building the prompt does not fail: no KeyError ends the run.
C6_EmptyDictRenders ==
    (IsStr(errors) /\ DOMAIN parse_coq_error(errors) = {})
    => exception # "KeyError"

\* the extraction of the last attempt that issued a request was empty
LastExtractionEmpty ==
    /\ Events("extract") # {}
    /\ history[Greatest(Events("extract"))].val = << >>
    /\ history[Greatest(Events("extract"))].round
          = history[Greatest(Events("request"))].round

\* C7: when the backend and coqc always return, a run that is over has ended
\* in one of three ways only: the last compile succeeded, the last extraction
\* was empty, or MAX_NUM_ATTEMPTS attempts were made.  (That at most one of
\* the three holds is left out here; the claim also states it.)
C7_ThreeWaysToEnd ==
    (Terminated /\ BackendAnswered)
    => \/ status = TRUE
       \/ LastExtractionEmpty
       \/ Requests = MAX_NUM_ATTEMPTS

\* C8: in an attempt whose extraction is the empty string the target file is
\* not written, coqc is not invoked and the error log is not written: the
\* step that finds the extraction empty changes neither file and returns to
\* main, and the round has no write and no coqc invocation.
C8_EmptyExtractionTouchesNothing ==
    /\ [](\A k \in Events("extract") :
             history[k].val = << >>
             => /\ EventsOf("write", history[k].round) = {}
                /\ EventsOf("coqc", history[k].round) = {})
    /\ [][(pc = "extract_code_segment" /\ extract_code_segment(coq_code) = << >>)
          => /\ file' = file
             /\ error_log' = error_log
             /\ pc' = "if_status"]_vars

\* C8 witness: an attempt found no code while the target file and the error
\* log held text, and has returned to main.
C8_Witness ==
    /\ pc = "if_status"
    /\ clean_coq_code = << >>
    /\ i = 1
    /\ file \notin {NoFile, StaleFile}
    /\ error_log \notin {NoFile, StaleLog}

\* C9 as claimed: after every attempt the target file holds the code
\* extracted in that attempt.
C9_FileHoldsEveryExtraction ==
    pc = "if_status" => file = clean_coq_code

\* C9 as amended: after every attempt that extracted code the target file
\* holds exactly that code.
C9_FileHoldsExtractedCode ==
    (pc = "if_status" /\ clean_coq_code # << >>) => file = clean_coq_code

\* C9 witness: the second attempt has replaced the different code of the
\* first.
C9_Witness ==
    /\ pc = "if_status"
    /\ i = 1
    /\ clean_coq_code # << >>
    /\ file = clean_coq_code
    /\ \E w \in EventsOf("write", 0) : history[w].val # clean_coq_code

\* C10: the error log changes only when coqc fails; it then holds exactly
\* the text of the error stream, which is also run_coqc's message.  A
\* successful compile and an empty extraction leave it as it was.
C10_ErrorLogOnFailureOnly ==
    /\ []((pc = "if_not_success" /\ ~success)
          => /\ error_log = message
             /\ error_log = history[Len(history)].val)
    /\ [][error_log' # error_log
          => /\ pc = "run_coqc"
             /\ ~success'
             /\ error_log' = message']_vars

\* C10 witness: a second failed compile has replaced the different text the
\* first one left in the error log.
C10_Witness ==
    /\ pc = "if_not_success"
    /\ ~success
    /\ i = 1
    /\ error_log = message
    /\ \E c \in EventsOf("coqc", 0) :
          history[c].val \notin {None, << >>, message}

\* C11: a fault of the backend call is caught nowhere: it ends the run at
\* once.  The failing step writes neither the target file nor the error log,
\* the fault is the last thing in the history of the run, and the run takes
\* no step after it (no retry, no request, no write, no coqc invocation).
C11_BackendFaultAborts ==
    /\ [](Events("BackendError") # {}
          => /\ pc = "crashed"
             /\ exception = "BackendError"
             /\ Events("BackendError") = {Len(history)})
    /\ [][Events("BackendError") = {}]_vars
    /\ [][(pc = "ollama_chat" /\ pc' # "extract_code_segment")
          => /\ file' = file
             /\ error_log' = error_log]_vars

\* C11 witness: the backend failed in the second round, after a round that
\* wrote the target file and the error log.
C11_Witness ==
    /\ exception = "BackendError"
    /\ i = 1
    /\ CoqcCalls = 1
    /\ file \notin {NoFile, StaleFile}
    /\ error_log \notin {NoFile, StaleLog}

(* ------------------- calls of the prompt builder ----------------------- *)

\* the longest run of digits in a generated diagnostic
MaxDigits == 2

\* the character c, n times
Rep(c, n) == [k \in 1..n |-> c]

\* A diagnostic put together from the parts of the expected shape.  drop
\* names the literal that is left out (0: none); an empty run of digits and
\* a quote in the file name break the shape as well.
Diagnostic(prefix, name, line, from, to, msg, drop) ==
    prefix
    \o (IF drop = 1 THEN << >> ELSE PatFile) \o name
    \o (IF drop = 2 THEN << >> ELSE PatLine) \o line
    \o (IF drop = 3 THEN << >> ELSE PatCharacters) \o from
    \o (IF drop = 4 THEN << >> ELSE <<"-">>) \o to
    \o (IF drop = 5 THEN << >> ELSE PatError) \o msg

\* file names: none, "x.v", one over two lines, one with a quote in it
FileNames == {<< >>, <<"x", ".", "v">>, <<"x", "\n", "y">>, <<"x", "\"", "y">>}

\* messages: none, one line, two lines
Messages == {<< >>, <<"E">>, <<"E", "\n", "F">>}

\* what stands before the diagnostic: nothing, a line of other output, or
\* an earlier diagnostic of the expected shape
Prefixes ==
    {<< >>, <<"x", "\n">>,
     Diagnostic(<< >>, << >>, <<"9">>, <<"8">>, <<"7">>, <<"D", "\n">>, 0)}

GeneratedDiagnostics ==
    {Diagnostic(p, n, Rep("1", a), Rep("2", b), Rep("3", c), m, d) :
        p \in Prefixes, n \in FileNames, a \in 0..MaxDigits, b \in 0..MaxDigits,
        c \in 0..MaxDigits, m \in Messages, d \in 0..5}

\* generate_coq_code is called with any first flag (i = 0 or not) and any
\* errors: None, the empty string, the extraction-failure message or a
\* diagnostic
PromptInit ==
    /\ task_prompt \in Tasks
    /\ file = NoFile
    /\ error_log = NoFile
    /\ i \in {0, 1}
    /\ status = FALSE
    /\ errors \in {None, << >>, NoCodeMessage} \cup GeneratedDiagnostics
    /\ pc = "construct_ollama_prompt"
    /\ prompt = None
    /\ coq_code = None
    /\ clean_coq_code = None
    /\ success = FALSE
    /\ message = None
    /\ exception = "none"
    /\ errordict = EmptyDict
    /\ history = << >>

PromptNext == build_prompt

PromptSpec == PromptInit /\ [][PromptNext]_vars

\* build_prompt has acted: generate_coq_code has its prompt or was left by
\* an exception
PromptBuilt == pc \in {"ollama_chat", "crashed"}

\* construct_error_message was called with a string
ErrorsParsed == PromptBuilt /\ Truthy(errors) /\ IsStr(errors)

\* s begins with the text p
HasPrefix(s, p) == Len(p) <= Len(s) /\ SubSeq(s, 1, Len(p)) = p

\* s[a..b] is a run of one or more digits
DigitsIn(s, a, b) == a <= b /\ \A k \in a..b : s[k] \in Digits

\* The places of s that hold the shape
\*   File "<name>", line <N>, characters <A>-<B>:\nError:
\* as <<f, l, c, d, e>>: where File, ", line, ", characters", "-" and
\* ":\nError: " begin.  <name> holds no quote, N, A and B are digits.
Shapes(s) ==
    LET At(lit) == {k \in 1..Len(s) : LitAt(s, k, lit)}
    IN  {t \in At(PatFile) \X At(PatLine) \X At(PatCharacters) \X At(<<"-">>)
               \X At(PatError) :
            /\ t[1] + Len(PatFile) <= t[2]
            /\ \A k \in (t[1] + Len(PatFile))..(t[2] - 1) : s[k] # "\""
            /\ DigitsIn(s, t[2] + Len(PatLine), t[3] - 1)
            /\ DigitsIn(s, t[3] + Len(PatCharacters), t[4] - 1)
            /\ DigitsIn(s, t[4] + 1, t[5] - 1)}

\* the shape of s that begins first
FirstShape(s) ==
    CHOOSE t \in Shapes(s) : \A u \in Shapes(s) : t[1] <= u[1]

\* the index after the literal ":\nError: " of the first shape
MessageStart(s) == FirstShape(s)[5] + Len(PatError)

\* C12: the prompt builder returns one of four prompts, chosen by the first
\* flag and by whether there is a prior error: preamble and task; preamble,
\* task and rendered error; the task alone; the reminder, the task and the
\* rendered error.  (The parts are joined by newlines.  Nothing is asked of
\* the rendering here but that it is there.)
C12_FourCases ==
    PromptBuilt
    => /\ exception = "none"
       /\ LET head == IF IsFirst(i) THEN metaprompt \o NL \o task_prompt \o NL
                      ELSE IF Truthy(errors) THEN ReminderText \o task_prompt \o NL
                      ELSE task_prompt \o NL
          IN  IF Truthy(errors)
              THEN HasPrefix(prompt, head) /\ prompt[Len(prompt)] = "\n"
              ELSE prompt = head

C18_MessageToEndOfText ==
    (ErrorsParsed /\ DOMAIN errordict # {})
    => errordict["message"]
          = SubSeq(errors, MessageStart(errors), Len(errors))

\* C18 as amended: on a match message is what follows "Error: " on the same
\* line: it ends before the first newline, or at the end of the text when no
\* newline follows.
C18_MessageToEndOfLine ==
    (ErrorsParsed /\ DOMAIN errordict # {})
    => LET m == MessageStart(errors)
           newlines == {k \in m..Len(errors) : errors[k] = "\n"}
       IN  errordict["message"]
              = SubSeq(errors, m,
                       IF newlines = {} THEN Len(errors)
                       ELSE Least(newlines) - 1)

\* C18 witness: a diagnostic whose message has a second line was parsed, and
\* message is the first line alone.
C18_Witness ==
    /\ ErrorsParsed
    /\ DOMAIN errordict # {}
    /\ errordict["message"] = <<"E">>
    /\ SubSeq(errors, Len(errors) - 2, Len(errors)) = <<"E", "\n", "F">>

\* text holds a fenced block: a fence and, after it, another fence
HasFencedBlock(text) ==
    \E o \in 1..Len(text) :
        /\ LitAt(text, o, Fence)
        /\ \E c \in (o + Len(Fence))..Len(text) : LitAt(text, c, Fence)

\* What stands between the first fence of text and the fence that follows
\* it, without the line of the opening fence (the letters of a language tag
\* and the newline after them), trimmed.
InnerCode(text) ==
    LET fences == {k \in 1..Len(text) : LitAt(text, k, Fence)}
        o == Least(fences)
        c == Least({k \in fences : k >= o + Len(Fence)})
        inner == SubSeq(text, o + Len(Fence), c - 1)
        tag == Span(inner, 1, Letters)
    IN  IF LitAt(inner, tag, NL)
        THEN strip(SubSeq(inner, tag + 1, Len(inner)))
        ELSE strip(inner)

\* C13: from a response that holds a fenced block the extractor returns the
\* trimmed inner content without the language-tag line of the opening fence,
\* and that is what the attempt writes to the target file.
C13_ExtractsInnerCode ==
    (pc \in {"write_to_file", "run_coqc", "if_not_success"}
     /\ HasFencedBlock(coq_code))
    => /\ clean_coq_code = InnerCode(coq_code)
       /\ pc # "write_to_file" => file = InnerCode(coq_code)

(* ------------------ extract_code_segment, called alone ------------------ *)

\* the longest response, counted in pieces
MaxPieces == 5

\* what a response is put together from: a fence, a lone backtick, a
\* letter, a newline, a blank
Pieces == {Fence, <<BT>>, <<"a">>, NL, <<" ">>}

RECURSIVE Concat(_)
Concat(ps) == IF ps = << >> THEN << >> ELSE Head(ps) \o Concat(Tail(ps))

GeneratedResponses ==
    {Concat(ps) : ps \in UNION {[1..n -> Pieces] : n \in 0..MaxPieces}}

\* compile_and_check is called with any response
ExtractInit ==
    /\ task_prompt \in Tasks
    /\ file = NoFile
    /\ error_log = NoFile
    /\ i = 0
    /\ status = FALSE
    /\ errors = None
    /\ pc = "extract_code_segment"
    /\ prompt = None
    /\ coq_code \in GeneratedResponses
    /\ clean_coq_code = None
    /\ success = FALSE
    /\ message = None
    /\ exception = "none"
    /\ errordict = EmptyDict
    /\ history = << >>

ExtractNext ==
    \/ extract_fails
    \/ extract_succeeds
    \/ write_to_file

ExtractSpec == ExtractInit /\ [][ExtractNext]_vars

\* extract_code_segment has acted on coq_code
Extracted == pc \in {"write_to_file", "run_coqc", "if_status"}

\* the first fenced region of text, its two fences included
FirstRegion(text) ==
    LET fences == {k \in 1..Len(text) : LitAt(text, k, Fence)}
        o == Least(fences)
        c == Least({k \in fences : k >= o + Len(Fence)})
    IN  SubSeq(text, o, c + Len(Fence) - 1)

\* C14: the extractor's result is that of the first fenced region of the
\* text alone, whatever stands before and after it, and it is the empty
\* string when the text holds no pair of fences.
C14_FirstRegionOnly ==
    Extracted =>
        IF HasFencedBlock(coq_code)
        THEN clean_coq_code = extract_code_segment(FirstRegion(coq_code))
        ELSE clean_coq_code = << >>

\* a response with two fenced regions one after the other, code extracted
\* and written
C14_Witness ==
    /\ pc = "run_coqc"
    /\ clean_coq_code # << >>
    /\ file = clean_coq_code
    /\ Len(FirstRegion(coq_code)) < Len(coq_code)
    /\ HasFencedBlock(SubSeq(coq_code, Len(FirstRegion(coq_code)) + 1,
                             Len(coq_code)))

(* ----------------------- the order of an attempt ----------------------- *)

\* where a step stands in its attempt
StepRank(ev) ==
    CASE ev = "call" -> 0
      [] ev = "prompt" -> 1
      [] ev = "request" -> 2
      [] ev = "BackendError" -> 3
      [] ev = "extract" -> 3
      [] ev = "write" -> 4
      [] ev = "coqc" -> 5

\* C16: the steps of an attempt occur in the order prompt build, model
\* request, extraction, file write, checker invocation; the checker is
\* invoked right after the code extracted in the same attempt was written,
\* the file holds that code when the checker starts, and it holds the code
\* of the successful attempt when the run ends in success.
C16_OrderWithinAttempt ==
    /\ \A k, l \in DOMAIN history :
           (k < l /\ history[k].round = history[l].round)
           => StepRank(history[k].ev) < StepRank(history[l].ev)
    /\ \A k \in Events("coqc") :
           /\ k >= 5
           /\ history[k - 1].ev = "write"
           /\ history[k - 2].ev = "extract"
           /\ history[k - 3].ev = "request"
           /\ history[k - 4].ev = "prompt"
           /\ history[k - 1].val = history[k - 2].val
    /\ pc = "run_coqc"
       => /\ history[Len(history)] = Event("write", clean_coq_code)
          /\ history[Len(history) - 1] = Event("extract", clean_coq_code)
          /\ file = clean_coq_code
    /\ (pc = "done" /\ status)
       => /\ history[Len(history)] = Event("coqc", None)
          /\ history[Len(history) - 2] = Event("extract", file)

\* a run that ends in success in its second attempt, the two attempts
\* having extracted different code
C16_Witness ==
    /\ pc = "done"
    /\ status
    /\ CoqcCalls = 2
    /\ \E k \in EventsOf("extract", 0) : history[k].val # file
    /\ \E k \in EventsOf("extract", 1) : history[k].val = file

(* ------------------------ what a request carries ----------------------- *)

\* the value of the one event of kind ev of round r
ValueOf(ev, r) == history[CHOOSE k \in EventsOf(ev, r) : TRUE].val

\* s holds p somewhere
Holds(s, p) == \E k \in 1..Len(s) : LitAt(s, k, p)

\* C17: round 0 is called with no prior error and its request is the
\* preamble and the task; no later request holds the preamble: a later
\* request is the task alone, or the reminder, the task and the rendering of
\* the error the previous round left.
C17_PreambleInFirstRequestOnly ==
    /\ \A k \in EventsOf("call", 0) : history[k].val = None
    /\ \A k \in EventsOf("request", 0) :
           history[k].val = metaprompt \o NL \o task_prompt \o NL
    /\ \A k \in Events("request") :
           LET r == history[k].round
               e == ValueOf("call", r)
           IN  r > 0 =>
                 /\ ~Holds(history[k].val, metaprompt)
                 /\ EventsOf("coqc", r - 1) # {}
                 /\ e = TextRead(ValueOf("coqc", r - 1))
                 /\ IF e = << >>
                    THEN history[k].val = task_prompt \o NL
                    ELSE /\ construct_error_message(e).exc = "none"
                         /\ history[k].val =
                              ReminderText \o task_prompt \o NL
                              \o construct_error_message(e).val \o NL

\* the second round has sent a request with the reminder and a rendered
\* error
C17_Witness ==
    /\ EventsOf("request", 0) # {}
    /\ \E k \in EventsOf("request", 1) : HasPrefix(history[k].val, ReminderText)

(* ------------------------ an empty diagnostic -------------------------- *)

\* coqc has just failed and left nothing on its error stream
EmptyDiagnosticFailure ==
    /\ history # << >>
    /\ history[Len(history)] = Event("coqc", << >>)

\* C19: a compile that fails with an empty diagnostic is a failed attempt
\* whose carried error counts as absent: the next round is called with the
\* empty string, its prompt is the task alone, and building it parses
\* nothing.
C19_EmptyDiagnosticIsNoError ==
    /\ [](EmptyDiagnosticFailure
          => /\ ~success
             /\ error_log = << >>
             /\ pc = "if_status" => (~status /\ errors = << >>)
             /\ pc = "done" => ~status)
    /\ [](\A k \in Events("request") :
            LET r == history[k].round
            IN  (r > 0 /\ \E c \in EventsOf("coqc", r - 1) : history[c].val = << >>)
                => /\ ValueOf("call", r) = << >>
                   /\ history[k].val = task_prompt \o NL)
    /\ [][(pc = "construct_ollama_prompt" /\ errors = << >> /\ i > 0)
          => /\ pc' = "ollama_chat"
             /\ prompt' = task_prompt \o NL
             /\ errordict' = errordict]_vars

\* the round after a failure with an empty diagnostic has sent its request
C19_Witness ==
    /\ \E c \in EventsOf("coqc", 0) : history[c].val = << >>
    /\ EventsOf("request", 1) # {}
    /\ errordict = EmptyDict

====
